---- MODULE Spec2Model ----
(***************************************************************************)
(* The MFS directory overlay of boxo (mfs/dir.go): a tree of Directory     *)
(* overlays over content-addressed DAG nodes.  Every overlay has its own   *)
(* mutex; operations are run by threads and split at the points where a    *)
(* mutex is taken, so that interleavings between critical sections are     *)
(* visible.  A DAG node is modelled by its content (two nodes have the     *)
(* same CID exactly when they have the same content).                      *)
(***************************************************************************)
EXTENDS Integers, Sequences, FiniteSets, TLC

\* ------------------------------------------------------------------ bounds
MaxOverlays == 4      \* overlay objects ever allocated (top directory included)
MaxOps      == 4      \* calls issued in a single-threaded run
MaxOpsConc  == 3      \* calls issued in a two-thread run
MaxOpsKinds == 3      \* calls issued in a run over a directory of any entry kind

Names    == {"a", "b"}            \* entry names used by callers
Modes    == {5}                   \* arguments of SetMode (os.FileMode, non zero)
Times    == {7}                   \* arguments of SetModTime (non zero instants)
Builders == {1}                   \* arguments of SetCidBuilder (0 is the default builder)
SeqThreads  == {1}
ConcThreads == {1, 2}
KindThreads == {3}

\* ------------------------------------------------------------------ DAG nodes
NoLinks == [n \in {} |-> 0]
NoCache == [n \in {} |-> 0]

\* cb is the CID builder (the prefix of the node's CID); dag.NodeWithData and
\* the nodes callers build have the default one
Node(type, mode, mtime, data, links) ==
    [type |-> type, mode |-> mode, mtime |-> mtime, data |-> data, links |-> links,
     cb |-> 0]

Nil == Node("nil", 0, 0, 0, NoLinks)

DirNode(mode, mtime, links) == Node("Directory", mode, mtime, 0, links)

FileNode(x) == Node("File", 0, 0, x, NoLinks)

EmptyDir == DirNode(0, 0, NoLinks)

Put(f, n, v) == [x \in (DOMAIN f) \cup {n} |-> IF x = n THEN v ELSE f[x]]

Del(f, n) == [x \in (DOMAIN f) \ {n} |-> f[x]]

\* nodes callers hand to AddChild
AddNodes == {FileNode(1), FileNode(2), EmptyDir}

\* the kinds of node a link of a directory may point to: the UnixFS kinds, a
\* UnixFS node of an unknown kind, a raw leaf, a protobuf node whose data is not
\* UnixFS, a node that is neither protobuf nor raw
NodeKinds ==
    {"Directory", "HAMTShard", "File", "Raw", "Symlink", "Metadata", "Unknown",
     "RawLeaf", "NotUnixfs", "NotProtobuf"}

\* a directory with one entry "a" of each kind
KindTrees == {DirNode(0, 0, [n \in {"a"} |-> Node(k, 0, 0, 0, NoLinks)]) : k \in NodeKinds}

\* the nodes of the DAG under nd, nd included
RECURSIVE Reach(_)
Reach(nd) == {nd} \cup UNION {Reach(nd.links[n]) : n \in DOMAIN nd.links}

\* DAGs a Root may be constructed over
InitTrees ==
    {EmptyDir,
     DirNode(0, 0, [n \in {"a", "b"} |-> IF n = "a" THEN DirNode(3, 0, NoLinks) ELSE EmptyDir])}

\* ------------------------------------------------------------------ state
VARIABLES
    ov,        \* the overlays: ov[i] is overlay i (ov[1] is the top directory)
    root,      \* the node most recently delivered to the Root
    dagStore,  \* the nodes added to the DAGService
    thr,       \* thr[t]: the call thread t is executing
    ret,       \* ret[t]: the result of the call thread t completed last
    nOps,      \* calls issued so far
    gh,        \* gh[i]: what callers have observed of overlay i (history)
    lastMut    \* the last completed call that was not a pure read (history)

vars == <<ov, root, dagStore, thr, ret, nOps, gh, lastMut>>

\* ------------------------------------------------------------------ UnixfsDir
\* The backing uio.Directory of a directory overlay is the fields mode, mtime
\* and links of its record.
UfsGetNode(o) == [Node(o.type, o.mode, o.mtime, 0, o.links) EXCEPT !.cb = o.cb]

UfsAddChild(o, name, nd) == [o EXCEPT !.links = Put(o.links, name, nd)]

UfsRemoveChild(o, name) == [o EXCEPT !.links = Del(o.links, name)]

UfsHas(o, name) == name \in DOMAIN o.links

UfsSetStat(o, mode, mtime) ==
    [o EXCEPT !.mode  = IF mode > 0 THEN mode ELSE @,
              !.mtime = IF mtime > 0 THEN mtime ELSE @]

\* ------------------------------------------------------------------ overlays
\* type, cb, maxLinks, maxFanout, mode, mtime and links are the unixfsDir
DirOverlay(name, parent, mode, mtime, links) ==
    [kind |-> "dir", name |-> name, parent |-> parent, mode |-> mode,
     mtime |-> mtime, links |-> links, cache |-> NoCache, node |-> Nil,
     type |-> "Directory", cb |-> 0, maxLinks |-> 0, maxFanout |-> 0]

FileOverlay(name, parent, nd) ==
    [kind |-> "file", name |-> name, parent |-> parent, mode |-> 0,
     mtime |-> 0, links |-> NoLinks, cache |-> NoCache, node |-> nd,
     type |-> nd.type, cb |-> nd.cb, maxLinks |-> 0, maxFanout |-> 0]

\* (mutant) NewDirectory that loses the stat of the node
NewDirectoryNoStat(name, nd, parent) == DirOverlay(name, parent, 0, 0, nd.links)

\* NewDirectory: an overlay over an existing directory node
\* (uio.NewDirectoryFromNode: the kind, stat, links and CID builder of the node,
\* the default limits)
NewDirectory(name, nd, parent) ==
    [DirOverlay(name, parent, nd.mode, nd.mtime, nd.links) EXCEPT !.type = nd.type, !.cb = nd.cb]

\* MkdirOpts
Opts(maxLinks, maxFanout, mode, mtime, cb) ==
    [maxLinks |-> maxLinks, maxFanout |-> maxFanout, mode |-> mode, mtime |-> mtime, cb |-> cb]

\* NewEmptyDirectory: a fresh empty directory with the options' limits, stat
\* and CID builder
NewEmptyDirectory(name, parent, opts) ==
    [DirOverlay(name, parent, opts.mode, opts.mtime, NoLinks) EXCEPT
        !.cb = opts.cb, !.maxLinks = opts.maxLinks, !.maxFanout = opts.maxFanout]

NewFile(name, nd, parent) == FileOverlay(name, parent, nd)

\* (mutant) a dispatch that forgets the sharded directories
DirKindsNoShard == {"Directory"}

DirKinds  == {"Directory", "HAMTShard"}
FileKinds == {"File", "Raw", "Symlink", "RawLeaf"}

\* (mutant) cacheNode that keeps the limits of uio.NewDirectoryFromNode
InheritNothing(ndir, par) == ndir

\* the options cacheNode copies from the parent to a materialized directory
Inherit(ndir, par) == [ndir EXCEPT !.maxLinks = par.maxLinks, !.maxFanout = par.maxFanout]

\* cacheNode: materialize node nd as the overlay of entry name of directory d.
\* Yields the new overlay table, the instance and the error.
cacheNode(o, d, name, nd) ==
    IF nd.type = "NotProtobuf"
    THEN [ov |-> o, inst |-> 0, err |-> "ErrUnrecognizedNodeType"]
    ELSE IF nd.type = "NotUnixfs"
    THEN [ov |-> o, inst |-> 0, err |-> "ErrNotUnixfs"]
    ELSE IF nd.type \in DirKinds
    THEN [ov |-> Append([o EXCEPT ![d].cache = Put(@, name, Len(o) + 1)],
                        Inherit(NewDirectory(name, nd, d), o[d])),
          inst |-> Len(o) + 1, err |-> "nil"]
    ELSE IF nd.type \in FileKinds
    THEN [ov |-> Append([o EXCEPT ![d].cache = Put(@, name, Len(o) + 1)],
                        NewFile(name, nd, d)),
          inst |-> Len(o) + 1, err |-> "nil"]
    ELSE IF nd.type = "Metadata"
    THEN [ov |-> o, inst |-> 0, err |-> "ErrNotYetImplemented"]
    ELSE [ov |-> o, inst |-> 0, err |-> "ErrInvalidChild"]

\* (mutant) childUnsync that never looks into entriesCache
childUnsyncNoCache(o, d, name) ==
    IF ~UfsHas(o[d], name)
    THEN [ov |-> o, inst |-> 0, err |-> "ErrNotExist"]
    ELSE cacheNode(o, d, name, o[d].links[name])

\* childUnsync: the cached overlay, else the entry found in the backing store
childUnsync(o, d, name) ==
    IF name \in DOMAIN o[d].cache
    THEN [ov |-> o, inst |-> o[d].cache[name], err |-> "nil"]
    ELSE IF ~UfsHas(o[d], name)
    THEN [ov |-> o, inst |-> 0, err |-> "ErrNotExist"]
    ELSE cacheNode(o, d, name, o[d].links[name])

\* whether childUnsync(d, name) has to allocate an overlay
Materializes(o, d, name) ==
    /\ name \notin DOMAIN o[d].cache
    /\ UfsHas(o[d], name)
    /\ o[d].links[name].type \in DirKinds \cup FileKinds

\* ------------------------------------------------------------------ threads
Zero == [n \in Names |-> 0]

NoMsg == [name |-> "", node |-> Nil]

NoPre == [links |-> NoLinks, names |-> {}]

IdleCtl ==
    [pc |-> "idle", op |-> "none", d |-> 0, name |-> "", m |-> 0, arg |-> Nil,
     opts |-> Opts(0, 0, 0, 0, 0),
     stk |-> <<>>, wait |-> 0, msg |-> NoMsg, cur |-> 0, err |-> "nil",
     nd |-> Nil, pre |-> NoPre]

NoRet ==
    [op |-> "none", d |-> 0, name |-> "", m |-> 0, err |-> "nil",
     inst |-> 0, node |-> Nil, names |-> {}, prev |-> 0, prevU |-> 0]

NoMut ==
    [op |-> "none", d |-> 0, name |-> "", m |-> 0, err |-> "nil", node |-> Nil,
     links |-> NoLinks, names |-> {}]

Threads == DOMAIN thr

OpLimit ==
    IF Threads = KindThreads THEN MaxOpsKinds
    ELSE IF Cardinality(Threads) > 1 THEN MaxOpsConc ELSE MaxOps

\* the mutex of overlay d is held by the thread that has a frame on d
Holds(t) == {thr[t].stk[i].d : i \in 1..Len(thr[t].stk)}

LockFree(d) == \A t \in Threads : d \notin Holds(t)

Top(t) == thr[t].stk[Len(thr[t].stk)]

Pop(stk) == SubSeq(stk, 1, Len(stk) - 1)

SetTop(stk, f) == [stk EXCEPT ![Len(stk)] = f]

\* ------------------------------------------------------------------ history
\* gone: the names unlinked and not created again since; made: the overlay was
\* created by Mkdir; dead: the path of the overlay was unlinked, or the overlay
\* was dropped by Uncache
NewGh(o) ==
    [child |-> Zero, childC |-> Zero, inst |-> Zero, instC |-> Zero,
     delivered |-> Nil, surv |-> DOMAIN o.links,
     gone |-> {}, made |-> FALSE, dead |-> FALSE]

\* the names from the top directory down to overlay i
RECURSIVE Path(_, _)
Path(o, i) == IF i = 0 THEN <<>> ELSE Append(Path(o, o[i].parent), o[i].name)

\* the history grows with the overlay table
GhSync(o, g) == IF Len(o) > Len(g) THEN Append(g, NewGh(o[Len(o)])) ELSE g

\* the node GetNode of overlay d yields when nobody else is running
RECURSIVE NodeOf(_, _)
NodeOf(o, d) ==
    IF o[d].kind = "file" THEN o[d].node
    ELSE UfsGetNode([o[d] EXCEPT !.links =
                 [n \in (DOMAIN o[d].links) \cup (DOMAIN o[d].cache) |->
                     IF n \in DOMAIN o[d].cache THEN NodeOf(o, o[d].cache[n])
                     ELSE o[d].links[n]]])

Call0(op, d) == [IdleCtl EXCEPT !.pc = "call", !.op = op, !.d = d, !.wait = d]

Result(c) == [NoRet EXCEPT !.op = c.op, !.d = c.d, !.name = c.name, !.m = c.m]

Mut(c) == [NoMut EXCEPT !.op = c.op, !.d = c.d, !.name = c.name, !.m = c.m]

\* the options Mkdir hands to MkdirWithOpts: the limits of the directory
MkdirOpts(o) == Opts(o.maxLinks, o.maxFanout, 0, 0, 0)

\* the options callers hand to MkdirWithOpts themselves
OptsInputs == {Opts(9, 8, 3, 0, 1)}

\* the calls a caller holding overlay d may issue (Mkdir is MkdirWithOpts)
CallsOn(d) ==
    IF ov[d].kind = "file"
    THEN {Call0("GetNode", d)}
    ELSE {[Call0(op, d) EXCEPT !.name = n] : op \in {"Child", "Uncache", "Unlink"}, n \in Names}
         \cup {[Call0("Mkdir", d) EXCEPT !.name = n, !.opts = o] :
                    n \in Names, o \in {MkdirOpts(ov[d])} \cup OptsInputs}
         \cup {[Call0("SetCidBuilder", d) EXCEPT !.m = b] : b \in Builders}
         \cup {[Call0("AddChild", d) EXCEPT !.name = n, !.arg = a] : n \in Names, a \in AddNodes}
         \cup {Call0("ListNames", d), Call0("ForEachEntry", d), Call0("Flush", d), Call0("GetNode", d)}
         \cup {[Call0("SetMode", d) EXCEPT !.m = m,
                   !.pre = [links |-> NodeOf(ov, d).links, names |-> DOMAIN ov[d].links]] : m \in Modes}
         \cup {[Call0("SetModTime", d) EXCEPT !.m = m,
                   !.pre = [links |-> NodeOf(ov, d).links, names |-> DOMAIN ov[d].links]] : m \in Times}

\* overlays the call may have to allocate
Allocs(c) ==
    IF c.op \in {"Child", "AddChild"} THEN (IF Materializes(ov, c.d, c.name) THEN 1 ELSE 0)
    ELSE IF c.op = "Mkdir" THEN (IF c.name \in DOMAIN ov[c.d].cache THEN 0 ELSE 1)
    ELSE IF c.op = "ForEachEntry"
    THEN Cardinality({n \in DOMAIN ov[c.d].links : Materializes(ov, c.d, n)})
    ELSE 0

\* a thread issues a call
Call(t) ==
    /\ thr[t].pc = "idle"
    /\ nOps < OpLimit
    /\ \E d \in 1..Len(ov) : \E c \in CallsOn(d) :
          /\ Len(ov) + Allocs(c) <= MaxOverlays
          /\ thr' = [thr EXCEPT ![t] = c]
    /\ nOps' = nOps + 1
    /\ UNCHANGED <<ov, root, dagStore, ret, gh, lastMut>>

Running(t, op) == thr[t].pc = "call" /\ thr[t].op = op /\ LockFree(thr[t].d)

Return(t, r) == thr' = [thr EXCEPT ![t] = IdleCtl] /\ ret' = [ret EXCEPT ![t] = r]

\* ------------------------------------------------------------------ Child, Uncache
Child(t) ==
    /\ Running(t, "Child")
    /\ LET c == thr[t]
           r == childUnsync(ov, c.d, c.name)
           g == GhSync(r.ov, gh)
       IN /\ Len(r.ov) <= MaxOverlays
          /\ ov' = r.ov
          /\ gh' = IF r.err = "nil"
                   THEN [g EXCEPT ![c.d].child[c.name] = r.inst, ![c.d].childC[c.name] = r.inst,
                                  ![c.d].inst[c.name] = r.inst, ![c.d].instC[c.name] = r.inst]
                   ELSE g
          /\ Return(t, [Result(c) EXCEPT !.err = r.err, !.inst = r.inst,
                                          !.prev = gh[c.d].childC[c.name],
                                          !.prevU = gh[c.d].child[c.name]])
    /\ UNCHANGED <<root, dagStore, nOps, lastMut>>

Forget(g, name) ==
    [g EXCEPT !.child[name] = 0, !.childC[name] = 0, !.inst[name] = 0, !.instC[name] = 0]

Uncache(t) ==
    /\ Running(t, "Uncache")
    /\ LET c == thr[t]
           g == IF c.name \in DOMAIN ov[c.d].cache
                THEN [gh EXCEPT ![ov[c.d].cache[c.name]].dead = TRUE]
                ELSE gh
       IN /\ ov' = [ov EXCEPT ![c.d].cache = Del(@, c.name)]
          /\ gh' = [g EXCEPT ![c.d] = Forget(@, c.name)]
          /\ Return(t, Result(c))
          /\ lastMut' = Mut(c)
    /\ UNCHANGED <<root, dagStore, nOps>>

\* SetCidBuilder hands the builder to the unixfsDir (no mutex is taken)
SetCidBuilder(t) ==
    /\ thr[t].pc = "call" /\ thr[t].op = "SetCidBuilder"
    /\ ov' = [ov EXCEPT ![thr[t].d].cb = thr[t].m]
    /\ Return(t, Result(thr[t]))
    /\ lastMut' = Mut(thr[t])
    /\ UNCHANGED <<root, dagStore, nOps, gh>>

\* ------------------------------------------------------------------ ListNames
ListNames(t) ==
    /\ Running(t, "ListNames")
    /\ Return(t, [Result(thr[t]) EXCEPT !.names = DOMAIN ov[thr[t].d].links])
    /\ UNCHANGED <<ov, root, dagStore, nOps, gh, lastMut>>

\* ------------------------------------------------------------------ Mkdir
\* (mutant) MkdirWithOpts that returns whatever overlay it found
MkdirExistingAny(kind, inst) == inst

\* what MkdirWithOpts returns beside os.ErrExist for an entry that resolves
MkdirExisting(kind, inst) == IF kind = "dir" THEN inst ELSE 0

Mkdir(t) ==
    /\ Running(t, "Mkdir")
    /\ LET c == thr[t]
           r == childUnsync(ov, c.d, c.name)
           new == Len(ov) + 1
           dirobj == NewEmptyDirectory(c.name, c.d, [c.opts EXCEPT !.cb = ov[c.d].cb])
           ndir == UfsGetNode(dirobj)
       IN IF r.err = "nil"
          THEN /\ Len(r.ov) <= MaxOverlays
               /\ ov' = r.ov
               /\ gh' = GhSync(r.ov, gh)
               /\ dagStore' = dagStore
               /\ Return(t, [Result(c) EXCEPT !.err = "ErrExist",
                                !.inst = MkdirExisting(r.ov[r.inst].kind, r.inst)])
               /\ lastMut' = [Mut(c) EXCEPT !.err = "ErrExist"]
          ELSE /\ new <= MaxOverlays
               /\ ov' = Append([ov EXCEPT ![c.d] = [UfsAddChild(@, c.name, ndir) EXCEPT
                                                       !.cache = Put(@, c.name, new)]],
                               dirobj)
               /\ gh' = Append([gh EXCEPT ![c.d].inst[c.name] = new, ![c.d].instC[c.name] = new,
                                          ![c.d].surv = @ \cup {c.name},
                                          ![c.d].gone = @ \ {c.name}],
                               [NewGh(dirobj) EXCEPT !.made = TRUE])
               /\ dagStore' = dagStore \cup {ndir}
               /\ Return(t, [Result(c) EXCEPT !.inst = new])
               /\ lastMut' = Mut(c)
    /\ UNCHANGED <<root, nOps>>

\* ------------------------------------------------------------------ Unlink
\* (mutant) Unlink that keeps the cached overlay
UnlinkCacheKept(cache, name) == cache

\* the cache Unlink leaves
UnlinkCache(cache, name) == Del(cache, name)

\* (mutant) Unlink that leaves the backing store alone
UnlinkStoreKept(o, name) == o

\* the backing store Unlink leaves
UnlinkStore(o, name) == UfsRemoveChild(o, name)

Unlink(t) ==
    /\ Running(t, "Unlink")
    /\ LET c == thr[t]
           target == Append(Path(ov, c.d), c.name)
           g == [i \in DOMAIN gh |->
                    IF Path(ov, i) = target THEN [gh[i] EXCEPT !.dead = TRUE] ELSE gh[i]]
       IN /\ ov' = [ov EXCEPT ![c.d] = UnlinkStore([@ EXCEPT !.cache = UnlinkCache(@, c.name)], c.name)]
          /\ gh' = [g EXCEPT ![c.d] = [Forget(@, c.name) EXCEPT !.surv = @ \ {c.name},
                                                                !.gone = @ \cup {c.name}]]
          /\ Return(t, Result(c))
          /\ lastMut' = [Mut(c) EXCEPT !.names = (DOMAIN ov[c.d].links) \cup (DOMAIN ov[c.d].cache)]
    /\ UNCHANGED <<root, dagStore, nOps>>

\* ------------------------------------------------------------------ AddChild
\* (mutant) AddChild that never refuses
AddChildNeverRefuses(err) == FALSE

\* AddChild refuses when the lookup of the name succeeds
AddChildRefuses(err) == err = "nil"

AddChild(t) ==
    /\ Running(t, "AddChild")
    /\ LET c == thr[t]
           r == childUnsync(ov, c.d, c.name)
           again == lastMut.op = "AddChild" /\ lastMut.d = c.d /\ lastMut.name = c.name
       IN IF AddChildRefuses(r.err)
          THEN /\ Len(r.ov) <= MaxOverlays
               /\ ov' = r.ov
               /\ gh' = GhSync(r.ov, gh)
               /\ dagStore' = dagStore
               /\ Return(t, [Result(c) EXCEPT !.err = "ErrDirExists"])
               /\ lastMut' = [Mut(c) EXCEPT !.err = "ErrDirExists",
                                 !.node = IF again THEN lastMut.node ELSE Nil]
          ELSE /\ Len(r.ov) <= MaxOverlays
               /\ ov' = [r.ov EXCEPT ![c.d] = UfsAddChild(@, c.name, c.arg)]
               /\ gh' = [GhSync(r.ov, gh) EXCEPT ![c.d].surv = @ \cup {c.name},
                                                   ![c.d].gone = @ \ {c.name}]
               /\ dagStore' = dagStore \cup {c.arg}
               /\ Return(t, Result(c))
               /\ lastMut' = [Mut(c) EXCEPT !.node = c.arg]
    /\ UNCHANGED <<root, nOps>>

\* ------------------------------------------------------------------ getNode
\* (mutant) Flush that keeps the cache
FlushKeeps == FALSE

\* the cacheClean argument Flush passes to getNode
FlushClean == TRUE

\* the cacheClean argument GetNode passes to getNode
GetNodeClean == FALSE

\* the cacheClean argument of the getNode a call starts with (SetMode and
\* SetModTime go through GetNode)
CleanArg(c) == IF c.op = "Flush" THEN FlushClean ELSE GetNodeClean

Frame(d, kind, clean, todo) == [d |-> d, kind |-> kind, clean |-> clean, todo |-> todo, cur |-> ""]

GetNodeOps == {"GetNode", "Flush", "SetMode", "SetModTime"}

\* File.GetNode: the node the file overlay holds
FileGetNode(t) ==
    /\ thr[t].pc = "call" /\ thr[t].op = "GetNode"
    /\ ov[thr[t].d].kind = "file"
    /\ Return(t, [Result(thr[t]) EXCEPT !.node = ov[thr[t].d].node])
    /\ UNCHANGED <<ov, root, dagStore, nOps, gh, lastMut>>

\* getNode and ForEachEntry take the directory's mutex and keep it while they
\* visit the entries; a nested entry.GetNode() is getNode(false) of the entry
Enter(t) ==
    /\ \/ thr[t].pc = "call" /\ thr[t].op \in GetNodeOps \cup {"ForEachEntry"}
       \/ thr[t].pc = "wait"
    /\ ov[thr[t].wait].kind = "dir"
    /\ LockFree(thr[t].wait)
    /\ LET c == thr[t]
           d == c.wait
           f == IF c.pc = "call" /\ c.op = "ForEachEntry"
                THEN Frame(d, "fe", FALSE, DOMAIN ov[d].links)
                ELSE Frame(d, "gn", IF c.pc = "call" THEN CleanArg(c) ELSE FALSE,
                           DOMAIN ov[d].cache)
       IN thr' = [thr EXCEPT ![t] = [c EXCEPT !.pc = "sync", !.wait = 0, !.stk = Append(@, f)]]
    /\ UNCHANGED <<ov, root, dagStore, ret, nOps, gh, lastMut>>

\* cacheSync, one entry of the range over entriesCache
SyncEntry(t) ==
    /\ thr[t].pc = "sync"
    /\ Top(t).kind = "gn"
    /\ \E n \in Top(t).todo :
         LET f == Top(t)
             e == ov[f.d].cache[n]
         IN IF ov[e].kind = "file"
            THEN /\ ov' = [ov EXCEPT ![f.d] = UfsAddChild(@, n, ov[e].node)]
                 /\ thr' = [thr EXCEPT ![t].stk = SetTop(@, [f EXCEPT !.todo = @ \ {n}])]
            ELSE /\ ov' = ov
                 /\ thr' = [thr EXCEPT ![t].pc = "wait", ![t].wait = e,
                                       ![t].stk = SetTop(@, [f EXCEPT !.cur = n])]
    /\ UNCHANGED <<root, dagStore, ret, nOps, gh, lastMut>>

\* the entries cacheSync leaves in the cache
Cleaned(cache, clean) == IF clean THEN NoCache ELSE cache

\* the end of getNode: the state of the directory, the node it returns
AfterSync(o, f) == [o EXCEPT ![f.d].cache = Cleaned(@, f.clean)]

GhClean(g, f) ==
    IF f.clean THEN [g EXCEPT ![f.d].childC = Zero, ![f.d].instC = Zero] ELSE g

SyncDone(t) == thr[t].pc = "sync" /\ Top(t).kind = "gn" /\ Top(t).todo = {}

\* (mutant) getNode that does not add the node to the DAGService
GetNodeAddsNothing(store, nd) == store

\* getNode adds the node it returns to the DAGService
GetNodeAdds(store, nd) == store \cup {nd}

\* a nested entry.GetNode() returns to the loop that called it
LeaveNested(t) ==
    /\ SyncDone(t)
    /\ Len(thr[t].stk) > 1
    /\ LET f == Top(t)
           o1 == AfterSync(ov, f)
           nd == UfsGetNode(o1[f.d])
           rest == Pop(thr[t].stk)
           p == rest[Len(rest)]
       IN /\ ov' = IF p.kind = "gn" THEN [o1 EXCEPT ![p.d] = UfsAddChild(@, p.cur, nd)] ELSE o1
          /\ dagStore' = GetNodeAdds(dagStore, nd)
          /\ gh' = GhClean(gh, f)
          /\ thr' = [thr EXCEPT ![t].stk = SetTop(rest, [p EXCEPT !.todo = @ \ {p.cur}, !.cur = ""])]
    /\ UNCHANGED <<root, ret, nOps, lastMut>>

\* GetNode returns
GetNodeReturn(t) ==
    /\ SyncDone(t)
    /\ Len(thr[t].stk) = 1
    /\ thr[t].op = "GetNode"
    /\ LET f == Top(t)
           o1 == AfterSync(ov, f)
           nd == UfsGetNode(o1[f.d])
       IN /\ ov' = o1
          /\ dagStore' = GetNodeAdds(dagStore, nd)
          /\ gh' = GhClean(gh, f)
          /\ Return(t, [Result(thr[t]) EXCEPT !.node = nd])
    /\ UNCHANGED <<root, nOps, lastMut>>

\* (mutant) getNode that returns without unlocking
AfterGetNodeLocked(stk) == stk

\* the frames a thread keeps when getNode has returned to Flush or SetMode
\* (getNode unlocks on return)
AfterGetNode(stk) == Pop(stk)

\* Flush: getNode(true) has returned, the node goes to the parent
FlushGot(t) ==
    /\ SyncDone(t)
    /\ Len(thr[t].stk) = 1
    /\ thr[t].op = "Flush"
    /\ LET f == Top(t)
           o1 == AfterSync(ov, f)
           nd == UfsGetNode(o1[f.d])
       IN /\ ov' = o1
          /\ dagStore' = GetNodeAdds(dagStore, nd)
          /\ gh' = [GhClean(gh, f) EXCEPT ![f.d].delivered = nd]
          /\ thr' = [thr EXCEPT ![t].pc = "prop", ![t].stk = AfterGetNode(@),
                                ![t].msg = [name |-> ov[f.d].name, node |-> nd],
                                ![t].nd = nd,
                                ![t].cur = ov[f.d].parent, ![t].wait = ov[f.d].parent]
    /\ UNCHANGED <<root, ret, nOps, lastMut>>

\* (mutant) setNodeData without SetLinks
WithStatNoLinks(nd, op, m) ==
    IF op = "SetMode" THEN Node(nd.type, m, nd.mtime, nd.data, NoLinks)
    ELSE Node(nd.type, nd.mode, m, nd.data, NoLinks)

\* the node SetMode and SetModTime build: the data of nd with the new stat,
\* the links of nd
WithStat(nd, op, m) ==
    IF op = "SetMode" THEN Node(nd.type, m, nd.mtime, nd.data, nd.links)
    ELSE Node(nd.type, nd.mode, m, nd.data, nd.links)

\* SetMode, SetModTime: GetNode has returned; setNodeData adds the rebuilt
\* node to the DAGService and hands it to the parent
SetNodeDataStart(t) ==
    /\ SyncDone(t)
    /\ Len(thr[t].stk) = 1
    /\ thr[t].op \in {"SetMode", "SetModTime"}
    /\ LET f == Top(t)
           o1 == AfterSync(ov, f)
           nd == UfsGetNode(o1[f.d])
           nd2 == WithStat(nd, thr[t].op, thr[t].m)
       IN /\ ov' = o1
          /\ dagStore' = GetNodeAdds(dagStore, nd) \cup {nd2}
          /\ gh' = [GhClean(gh, f) EXCEPT ![f.d].delivered = nd2]
          /\ thr' = [thr EXCEPT ![t].pc = "prop", ![t].stk = AfterGetNode(@),
                                ![t].msg = [name |-> ov[f.d].name, node |-> nd2],
                                ![t].nd = nd2,
                                ![t].cur = ov[f.d].parent, ![t].wait = ov[f.d].parent]
    /\ UNCHANGED <<root, ret, nOps, lastMut>>

\* ------------------------------------------------------------------ ForEachEntry
ForEachStep(t) ==
    /\ thr[t].pc = "sync"
    /\ Top(t).kind = "fe"
    /\ \E n \in Top(t).todo :
         LET f == Top(t)
             r == childUnsync(ov, f.d, n)
         IN /\ Len(r.ov) <= MaxOverlays
            /\ ov' = r.ov
            /\ gh' = GhSync(r.ov, gh)
            /\ IF r.err # "nil"
               THEN Return(t, [Result(thr[t]) EXCEPT !.err = r.err])
               ELSE IF r.ov[r.inst].kind = "file"
               THEN /\ thr' = [thr EXCEPT ![t].stk = SetTop(@, [f EXCEPT !.todo = @ \ {n}])]
                    /\ ret' = ret
               ELSE /\ thr' = [thr EXCEPT ![t].pc = "wait", ![t].wait = r.inst,
                                          ![t].stk = SetTop(@, [f EXCEPT !.cur = n])]
                    /\ ret' = ret
    /\ UNCHANGED <<root, dagStore, nOps, lastMut>>

ForEachReturn(t) ==
    /\ thr[t].pc = "sync"
    /\ Top(t).kind = "fe"
    /\ Top(t).todo = {}
    /\ Return(t, [Result(thr[t]) EXCEPT !.names = DOMAIN ov[thr[t].d].links])
    /\ UNCHANGED <<ov, root, dagStore, nOps, gh, lastMut>>

\* ------------------------------------------------------------------ propagation
\* localUpdate: under the lock of directory d, link the child's node, build the
\* directory's node and add it to the DAGService
localUpdate(o, msg) == UfsAddChild(o, msg.name, msg.node)

\* what localUpdate returns: success, the error of unixfsDir.AddChild, the
\* error of dagService.Add
LocalUpdateOutcomes == {"nil", "ErrAddChild", "ErrStore"}

\* (mutant) updateChildEntry that goes on to the parent whatever localUpdate
\* returned
PropagatesAlways(err) == TRUE

\* updateChildEntry goes on to the parent when localUpdate succeeded
Propagates(err) == err = "nil"

\* Directory.updateChildEntry, the local part; the parent's turn comes next
LocalUpdate(t) ==
    /\ thr[t].pc = "prop"
    /\ thr[t].cur # 0
    /\ LockFree(thr[t].cur)
    /\ \E e \in LocalUpdateOutcomes :
         LET c == thr[t]
             d == c.cur
             o1 == IF e = "ErrAddChild" THEN ov[d] ELSE localUpdate(ov[d], c.msg)
             nd == UfsGetNode(o1)
         IN /\ ov' = [ov EXCEPT ![d] = o1]
            /\ dagStore' = IF e = "nil" THEN dagStore \cup {nd} ELSE dagStore
            /\ gh' = [gh EXCEPT ![d].delivered = IF e = "nil" THEN nd ELSE @,
                                ![d].surv = IF e = "ErrAddChild" THEN @ ELSE @ \cup {c.msg.name}]
            /\ IF Propagates(e)
               THEN /\ thr' = [thr EXCEPT ![t].msg = [name |-> ov[d].name,
                                                       node |-> IF e = "nil" THEN nd ELSE Nil],
                                          ![t].err = e,
                                          ![t].cur = ov[d].parent, ![t].wait = ov[d].parent]
                    /\ ret' = ret
                    /\ lastMut' = lastMut
               ELSE /\ Return(t, [Result(c) EXCEPT !.err = e, !.node = c.nd])
                    /\ lastMut' = [Mut(c) EXCEPT !.err = e, !.node = c.nd]
    /\ UNCHANGED <<root, nOps>>

\* Root.updateChildEntry ends the propagation: the Root keeps the node
RootUpdate(t) ==
    /\ thr[t].pc = "prop"
    /\ thr[t].cur = 0
    /\ root' = thr[t].msg.node
    /\ dagStore' = dagStore \cup {thr[t].msg.node}
    /\ IF thr[t].op = "Flush"
       THEN /\ Return(t, [Result(thr[t]) EXCEPT !.node = thr[t].nd])
            /\ lastMut' = [Mut(thr[t]) EXCEPT !.node = thr[t].nd]
       ELSE /\ thr' = [thr EXCEPT ![t].pc = "repl", ![t].wait = thr[t].d]
            /\ ret' = ret
            /\ lastMut' = lastMut
    /\ UNCHANGED <<ov, nOps, gh>>

\* setNodeData, under the lock: the backing directory is replaced by one built
\* from the node that was handed to the parent
Replaced(o, nd) ==
    [o EXCEPT !.type = nd.type, !.cb = nd.cb,
              !.mode = nd.mode, !.mtime = nd.mtime, !.links = nd.links]

Replace(t) ==
    /\ thr[t].pc = "repl"
    /\ LockFree(thr[t].d)
    /\ ov' = [ov EXCEPT ![thr[t].d] = Replaced(@, thr[t].nd)]
    /\ thr' = [thr EXCEPT ![t].pc = "stat", ![t].wait = 0]
    /\ UNCHANGED <<root, dagStore, ret, nOps, gh, lastMut>>

\* SetMode, SetModTime: unixfsDir.SetStat, then return
SetStat(t) ==
    /\ thr[t].pc = "stat"
    /\ LET c == thr[t]
       IN /\ ov' = [ov EXCEPT ![c.d] = IF c.op = "SetMode" THEN UfsSetStat(@, c.m, 0)
                                       ELSE UfsSetStat(@, 0, c.m)]
          /\ Return(t, [Result(c) EXCEPT !.node = c.nd])
          /\ lastMut' = [Mut(c) EXCEPT !.node = c.nd, !.links = c.pre.links, !.names = c.pre.names]
    /\ UNCHANGED <<root, dagStore, nOps, gh>>

\* ------------------------------------------------------------------ specification
InitWith(T, trees) ==
    /\ \E tree \in trees :
          /\ ov = <<NewDirectory("root", tree, 0)>>
          /\ root = tree
          /\ dagStore = Reach(tree)
          /\ gh = <<NewGh(NewDirectory("root", tree, 0))>>
    /\ thr = [t \in T |-> IdleCtl]
    /\ ret = [t \in T |-> NoRet]
    /\ nOps = 0
    /\ lastMut = NoMut

Init == InitWith(SeqThreads, InitTrees)

InitConc == InitWith(ConcThreads, InitTrees)

InitKinds == InitWith(KindThreads, KindTrees)

Next ==
    \/ \E t \in Threads : Call(t)
    \/ \E t \in Threads : Child(t)
    \/ \E t \in Threads : Uncache(t)
    \/ \E t \in Threads : SetCidBuilder(t)
    \/ \E t \in Threads : ListNames(t)
    \/ \E t \in Threads : Mkdir(t)
    \/ \E t \in Threads : Unlink(t)
    \/ \E t \in Threads : AddChild(t)
    \/ \E t \in Threads : FileGetNode(t)
    \/ \E t \in Threads : Enter(t)
    \/ \E t \in Threads : SyncEntry(t)
    \/ \E t \in Threads : LeaveNested(t)
    \/ \E t \in Threads : GetNodeReturn(t)
    \/ \E t \in Threads : FlushGot(t)
    \/ \E t \in Threads : SetNodeDataStart(t)
    \/ \E t \in Threads : ForEachStep(t)
    \/ \E t \in Threads : ForEachReturn(t)
    \/ \E t \in Threads : LocalUpdate(t)
    \/ \E t \in Threads : RootUpdate(t)
    \/ \E t \in Threads : Replace(t)
    \/ \E t \in Threads : SetStat(t)

\* one thread
Spec == Init /\ [][Next]_vars

\* two threads
SpecConc == InitConc /\ [][Next]_vars

\* one thread, over a directory that has an entry of any kind
SpecKinds == InitKinds /\ [][Next]_vars

\* ------------------------------------------------------------------ claims
Done(t, op) == thr[t].pc = "idle" /\ ret[t].op = op

\* name resolves in directory d: it is cached, or linked to a node that
\* materializes
Resolves(o, d, name) ==
    \/ name \in DOMAIN o[d].cache
    \/ name \in DOMAIN o[d].links /\ o[d].links[name].type \in DirKinds \cup FileKinds

ResolvesToDir(o, d, name) ==
    \/ name \in DOMAIN o[d].cache /\ o[o[d].cache[name]].kind = "dir"
    \/ /\ name \notin DOMAIN o[d].cache
       /\ name \in DOMAIN o[d].links /\ o[d].links[name].type \in DirKinds

\* thread t completes call op in this step
Completes(t, op) == thr[t].pc # "idle" /\ thr[t].op = op /\ thr'[t].pc = "idle"

\* C1 (as stated): a successful D.child(n) returns the instance the previous
\* successful D.child(n) returned, unless D.unlink(n) or D.uncache(n) was called
\* in between.
C1_SameInstanceUnlessUnlinkUncache ==
    \A t \in Threads :
        (Done(t, "Child") /\ ret[t].err = "nil" /\ ret[t].prevU # 0)
            => ret[t].inst = ret[t].prevU

\* C1 (amended): a successful D.child(n) returns the instance the previous
\* successful D.child(n) returned, unless D.unlink(n), D.uncache(n) or a
\* cache-cleaning reification of D (D.flush(), which is getNode(true)) came in
\* between.
C1_SameInstanceUnlessEvicted ==
    \A t \in Threads :
        (Done(t, "Child") /\ ret[t].err = "nil" /\ ret[t].prev # 0)
            => ret[t].inst = ret[t].prev

\* a second successful child(n) has returned, after some other call on the tree
C1_Witness ==
    \E t \in Threads :
        /\ Done(t, "Child") /\ ret[t].err = "nil"
        /\ ret[t].prev # 0 /\ ret[t].inst = ret[t].prev
        /\ lastMut.op \in {"Mkdir", "AddChild", "SetMode", "Flush"}

HasLink(links, name, nd) == name \in DOMAIN links /\ links[name] = nd

PropOps == {"Flush", "SetMode", "SetModTime"}

\* the node of directory p that p's parent holds (the Root, for the top directory)
HeldByParent(p) ==
    IF ov[p].parent = 0 THEN root
    ELSE IF ov[p].name \in DOMAIN ov[ov[p].parent].links
    THEN ov[ov[p].parent].links[ov[p].name]
    ELSE Nil

\* C2: when two threads have each completed a propagation from two different
\* children L1, L2 of a directory P, and P's own backing store links both
\* propagated nodes, the node of P held by P's parent (the Root for the top
\* directory) links both as well.
C2_NoLostUpdate ==
    \A t1, t2 \in Threads :
        (/\ t1 # t2
         /\ thr[t1].pc = "idle" /\ thr[t2].pc = "idle"
         /\ ret[t1].op \in PropOps /\ ret[t2].op \in PropOps
         /\ ret[t1].err = "nil" /\ ret[t2].err = "nil"
         /\ ov[ret[t1].d].parent # 0
         /\ ov[ret[t1].d].parent = ov[ret[t2].d].parent
         /\ ov[ret[t1].d].name # ov[ret[t2].d].name
         /\ HasLink(ov[ov[ret[t1].d].parent].links, ov[ret[t1].d].name, ret[t1].node)
         /\ HasLink(ov[ov[ret[t2].d].parent].links, ov[ret[t2].d].name, ret[t2].node))
            => LET held == HeldByParent(ov[ret[t1].d].parent)
               IN /\ HasLink(held.links, ov[ret[t1].d].name, ret[t1].node)
                  /\ HasLink(held.links, ov[ret[t2].d].name, ret[t2].node)

\* the ancestors of overlay d along the parent references, d included
RECURSIVE Anc(_, _)
Anc(o, d) == IF d = 0 THEN {} ELSE {d} \cup Anc(o, o[d].parent)

\* C3: no set of threads waits in a cycle, each for a mutex another one of the
\* set holds (or it holds itself), and no thread waits for the mutex of an
\* ancestor (or of the directory itself) while it holds a directory's mutex.
C3_NoDeadlock ==
    /\ \A S \in (SUBSET Threads) \ {{}} :
          ~(\A t \in S : thr[t].wait # 0 /\ \E u \in S : thr[t].wait \in Holds(u))
    /\ \A t \in Threads :
          thr[t].wait # 0 => \A h \in Holds(t) : thr[t].wait \notin Anc(ov, h)

\* a thread that holds a directory's mutex waits for the mutex of an entry
\* another thread holds
C3_Witness ==
    \E t, u \in Threads :
        /\ t # u
        /\ Holds(t) # {}
        /\ thr[t].wait # 0
        /\ thr[t].wait \in Holds(u)

\* C4: when all calls have returned, the name of every mkdir or add_child on D
\* that returned success, and was not unlinked afterwards, is linked in D.
C4_SuccessfulAddStaysLinked ==
    (\A t \in Threads : thr[t].pc = "idle") =>
        \A t \in Threads :
            (/\ ret[t].op \in {"Mkdir", "AddChild"} /\ ret[t].err = "nil"
             /\ ret[t].name \in gh[ret[t].d].surv)
                => ret[t].name \in DOMAIN ov[ret[t].d].links

\* C5: single-threaded, after D.flush() succeeded and with only reads since,
\* D.get_node() returns the node D delivered last to its parent.
C5_GetNodeAfterFlush ==
    \A t \in Threads :
        (/\ Done(t, "GetNode") /\ ret[t].err = "nil"
         /\ lastMut.op = "Flush" /\ lastMut.err = "nil" /\ lastMut.d = ret[t].d)
            => /\ ret[t].node = gh[ret[t].d].delivered
               /\ ret[t].node = lastMut.node

\* get_node() has returned after a flush of a directory that has entries, one
\* of them materialized again since
C5_Witness ==
    \E t \in Threads :
        /\ Done(t, "GetNode") /\ lastMut.op = "Flush" /\ lastMut.d = ret[t].d
        /\ ret[t].node = gh[ret[t].d].delivered
        /\ ov[ret[t].d].cache # NoCache

\* C6: after a cache-cleaning reification of D (the getNode(true) of D.flush()),
\* list_names() returns exactly the names that were linked or created in D and
\* not unlinked since.
C6_ListNamesAfterClean ==
    \A t \in Threads :
        (/\ Done(t, "ListNames")
         /\ lastMut.op = "Flush" /\ lastMut.d = ret[t].d)
            => ret[t].names = gh[ret[t].d].surv

\* list_names() has returned after the cache-cleaning reification of a
\* directory that was constructed with two entries and has one left
C6_Witness ==
    \E t \in Threads :
        /\ Done(t, "ListNames") /\ lastMut.op = "Flush" /\ lastMut.d = ret[t].d
        /\ ret[t].d = 1
        /\ Cardinality(DOMAIN ov[1].links) = 1
        /\ Cardinality(ret[t].names) = 1
        /\ gh[1].surv = ret[t].names

\* C7 (as stated): mkdir(name) where name resolves returns os.ErrExist and leaves
\* the link alone; for a directory it returns the overlay, which is the instance
\* a prior successful mkdir(name) or child(name) returned (none of unlink(name),
\* uncache(name) since); for a file it returns no overlay.
C7_MkdirExistingSameInstance ==
    [][\A t \in Threads :
        (Completes(t, "Mkdir") /\ Resolves(ov, thr[t].d, thr[t].name)) =>
            LET d == thr[t].d
                n == thr[t].name
                r == ret'[t]
            IN /\ r.err = "ErrExist"
               /\ ov'[d].links = ov[d].links
               /\ ResolvesToDir(ov, d, n) =>
                     /\ r.inst # 0
                     /\ gh[d].inst[n] # 0 => r.inst = gh[d].inst[n]
               /\ ~ResolvesToDir(ov, d, n) => r.inst = 0]_vars

\* C7 (amended): mkdir(name) where name resolves returns os.ErrExist and leaves
\* the link alone; for a directory it returns the overlay the cache holds for
\* name after the call, which is the cached instance when there was one, hence
\* the instance a prior successful mkdir(name) or child(name) returned unless
\* unlink(name), uncache(name) or a cache-cleaning reification (flush) came
\* in between; for a file it returns no overlay.
C7_MkdirExisting ==
    [][\A t \in Threads :
        (Completes(t, "Mkdir") /\ Resolves(ov, thr[t].d, thr[t].name)) =>
            LET d == thr[t].d
                n == thr[t].name
                r == ret'[t]
            IN /\ r.err = "ErrExist"
               /\ ov'[d].links = ov[d].links
               /\ ResolvesToDir(ov, d, n) =>
                     /\ r.inst # 0
                     /\ n \in DOMAIN ov'[d].cache /\ ov'[d].cache[n] = r.inst
                     /\ n \in DOMAIN ov[d].cache => r.inst = ov[d].cache[n]
                     /\ gh[d].instC[n] # 0 => r.inst = gh[d].instC[n]
               /\ ~ResolvesToDir(ov, d, n) => r.inst = 0]_vars

\* mkdir(name) has returned os.ErrExist with the overlay an earlier mkdir(name)
\* or child(name) returned
C7_Witness ==
    \E t \in Threads :
        /\ Done(t, "Mkdir") /\ ret[t].err = "ErrExist" /\ ret[t].inst # 0
        /\ gh[ret[t].d].instC[ret[t].name] = ret[t].inst

\* the node child(name).get_node() yields for an entry of d
EntryNode(o, d, name) ==
    IF name \in DOMAIN o[d].cache THEN NodeOf(o, o[d].cache[name]) ELSE o[d].links[name]

\* C8: add_child(name, N2) where name resolves fails with ErrDirExists, adds
\* nothing to the backing store or the DAGService and leaves the entry as it
\* was; after add_child(name, N1) succeeded and add_child(name, N2) failed,
\* child(name).get_node() is N1.
C8_AddChildExisting ==
    /\ [][\A t \in Threads :
            (Completes(t, "AddChild") /\ Resolves(ov, thr[t].d, thr[t].name)) =>
                LET d == thr[t].d
                    n == thr[t].name
                IN /\ ret'[t].err = "ErrDirExists"
                   /\ ov'[d].links = ov[d].links
                   /\ dagStore' = dagStore
                   /\ EntryNode(ov', d, n) = EntryNode(ov, d, n)]_vars
    /\ [](\A t \in Threads :
            (/\ Done(t, "GetNode") /\ ret[t].err = "nil"
             /\ lastMut.op = "AddChild" /\ lastMut.err = "ErrDirExists" /\ lastMut.node # Nil
             /\ ov[ret[t].d].parent = lastMut.d /\ ov[ret[t].d].name = lastMut.name
             /\ lastMut.name \in DOMAIN ov[lastMut.d].cache
             /\ ov[lastMut.d].cache[lastMut.name] = ret[t].d)
                => ret[t].node = lastMut.node)

\* add_child(x, N1) succeeded, add_child(x, N2) failed, and get_node() of the
\* overlay child(x) returns N1
C8_Witness ==
    \E t \in Threads :
        /\ Done(t, "GetNode")
        /\ lastMut.op = "AddChild" /\ lastMut.err = "ErrDirExists" /\ lastMut.node # Nil
        /\ ov[ret[t].d].parent = lastMut.d /\ ov[ret[t].d].name = lastMut.name
        /\ lastMut.name \in DOMAIN ov[lastMut.d].cache
        /\ ov[lastMut.d].cache[lastMut.name] = ret[t].d
        /\ ret[t].node = lastMut.node

\* C9: after set_mode(m) succeeded (only reads since), get_node() returns a node
\* with mode m and the links D's node had before the call, and list_names() the
\* names D had before the call; set_mod_time keeps the links and names likewise.
C9_SetStatKeepsLinks ==
    \A t \in Threads :
        (lastMut.op \in {"SetMode", "SetModTime"} /\ lastMut.err = "nil" /\ lastMut.d = ret[t].d) =>
            /\ (Done(t, "GetNode") /\ ret[t].err = "nil") =>
                  /\ ret[t].node.links = lastMut.links
                  /\ lastMut.op = "SetMode" => ret[t].node.mode = lastMut.m
                  /\ lastMut.op = "SetModTime" => ret[t].node.mtime = lastMut.m
            /\ Done(t, "ListNames") => ret[t].names = lastMut.names

\* get_node() has returned after set_mode on a directory that has links
C9_Witness ==
    \E t \in Threads :
        /\ Done(t, "GetNode") /\ lastMut.op = "SetMode" /\ lastMut.d = ret[t].d
        /\ ret[t].node.mode = lastMut.m
        /\ lastMut.links # NoLinks /\ ret[t].node.links = lastMut.links

\* C10 (as stated): no step of flush() changes the cache of the directory.
C10_FlushKeepsCache ==
    [][\A t \in Threads :
        thr[t].op = "Flush" => ov'[thr[t].d].cache = ov[thr[t].d].cache]_vars

\* C10 (amended): flush() leaves the cache of the directory empty when its
\* getNode(true) returns, get_node() leaves it unchanged, and an entry leaves a
\* cache only in a step of flush (whose reification is get_node(clean=true)),
\* uncache or unlink on that directory.
C10_FlushCleansCache ==
    [][/\ \A t \in Threads :
            (thr[t].op = "Flush" /\ thr[t].pc = "sync" /\ thr'[t].pc = "prop")
                => ov'[thr[t].d].cache = NoCache
       /\ \A d \in 1..Len(ov) :
            (\E n \in DOMAIN ov[d].cache :
                n \notin DOMAIN ov'[d].cache \/ ov'[d].cache[n] # ov[d].cache[n])
                => \E t \in Threads :
                      /\ thr[t].d = d /\ thr'[t] # thr[t]
                      /\ thr[t].op \in {"Flush", "Uncache", "Unlink"}]_vars

\* flush() has returned and the overlay an earlier call returned is cached no
\* more
C10_Witness ==
    \E t \in Threads :
        /\ Done(t, "Flush") /\ ret[t].err = "nil"
        /\ ov[ret[t].d].cache = NoCache
        /\ \E n \in Names : gh[ret[t].d].inst[n] # 0 /\ gh[ret[t].d].instC[n] = 0

Executing(t) == Holds(t) \cup (IF thr[t].wait # 0 THEN {thr[t].wait} ELSE {})

LocalUpdateFails(t) ==
    /\ thr[t].pc = "prop" /\ thr[t].cur # 0 /\ thr'[t] # thr[t]
    /\ (IF thr'[t].pc = "idle" THEN ret'[t].err ELSE thr'[t].err) # "nil"

\* C13: when local_update fails at directory A during a propagation, the call
\* returns that error at once: the Root's node and every directory but A are
\* left as they are (nothing above A is updated, nothing below is rolled back).
C13_FailureStopsPropagation ==
    [][\A t \in Threads :
        LocalUpdateFails(t) =>
            /\ thr'[t].pc = "idle"
            /\ ret'[t].err \in LocalUpdateOutcomes \ {"nil"}
            /\ root' = root
            /\ Len(ov') = Len(ov)
            /\ \A x \in 1..Len(ov) : x # thr[t].cur => ov'[x] = ov[x]]_vars

\* a flush, set_mode or set_mod_time of a directory below the top has returned
\* the error of a local_update, the directory keeps what it applied and the
\* Root holds the node it held before
C13_Witness ==
    \E t \in Threads :
        /\ thr[t].pc = "idle" /\ ret[t].op \in PropOps
        /\ ret[t].err \in LocalUpdateOutcomes \ {"nil"}
        /\ ov[ret[t].d].parent # 0
        /\ UfsGetNode(ov[ret[t].d]) = ret[t].node
        /\ ~HasLink(root.links, ov[ret[t].d].name, ret[t].node)

\* C14: in every reachable state every name cached in a directory is linked in
\* its backing store.
C14_CachedImpliesLinked ==
    \A d \in 1..Len(ov) : (DOMAIN ov[d].cache) \subseteq (DOMAIN ov[d].links)

\* what materializing a node of kind k yields, as the claim states it
KindOutcome(k) ==
    IF k \in {"Directory", "HAMTShard"} THEN "dir"
    ELSE IF k \in {"File", "Raw", "Symlink", "RawLeaf"} THEN "file"
    ELSE IF k = "Metadata" THEN "ErrNotYetImplemented"
    ELSE "ErrInvalidChild"

\* what materializing a node of kind k yields: kinds that are not UnixFS kinds
\* have errors of their own
KindOutcomeFormats(k) ==
    IF k = "NotProtobuf" THEN "ErrUnrecognizedNodeType"
    ELSE IF k = "NotUnixfs" THEN "ErrNotUnixfs"
    ELSE KindOutcome(k)

\* child(name) of an uncached name ends as out says for the kind of the link
Dispatches(t, out) ==
    LET d == thr[t].d
        n == thr[t].name
    IN IF n \notin DOMAIN ov[d].links
       THEN ret'[t].err = "ErrNotExist" /\ ov'[d].cache = ov[d].cache
       ELSE IF out \in {"dir", "file"}
       THEN /\ ret'[t].err = "nil"
            /\ ov'[d].cache = Put(ov[d].cache, n, ret'[t].inst)
            /\ ret'[t].inst = Len(ov) + 1 /\ Len(ov') = Len(ov) + 1
            /\ ov'[ret'[t].inst].kind = out
       ELSE ret'[t].err = out /\ ov'[d].cache = ov[d].cache /\ Len(ov') = Len(ov)

\* C15 (as stated): child(name) of an uncached name yields a directory overlay
\* for Directory and HAMTShard, a file overlay for File, Raw, Symlink and a raw
\* leaf, NotYetImplemented for Metadata, InvalidChild for any other kind; the
\* overlay is cached exactly on success.
C15_KindDispatch ==
    [][\A t \in Threads :
        (Completes(t, "Child") /\ thr[t].name \notin DOMAIN ov[thr[t].d].cache) =>
            Dispatches(t, IF thr[t].name \in DOMAIN ov[thr[t].d].links
                          THEN KindOutcome(ov[thr[t].d].links[thr[t].name].type)
                          ELSE "ErrNotExist")]_vars

\* C15 (amended): the same, InvalidChild being the outcome of any other UnixFS
\* kind; a node that is neither protobuf nor raw and a protobuf node whose data
\* is not UnixFS fail with errors of their own.
C15_KindDispatchFormats ==
    [][\A t \in Threads :
        (Completes(t, "Child") /\ thr[t].name \notin DOMAIN ov[thr[t].d].cache) =>
            Dispatches(t, IF thr[t].name \in DOMAIN ov[thr[t].d].links
                          THEN KindOutcomeFormats(ov[thr[t].d].links[thr[t].name].type)
                          ELSE "ErrNotExist")]_vars

\* child(name) has materialized a sharded directory
C15_Witness ==
    \E t \in Threads :
        /\ Done(t, "Child") /\ ret[t].err = "nil"
        /\ ov[ret[t].inst].kind = "dir" /\ ov[ret[t].inst].type = "HAMTShard"
        /\ ret[t].name \in DOMAIN ov[ret[t].d].cache
        /\ ov[ret[t].d].cache[ret[t].name] = ret[t].inst

\* thread t materializes a directory entry from the backing store in this step
\* of child() or for_each_entry()
MaterializesDir(t) ==
    /\ thr[t].op \in {"Child", "ForEachEntry"}
    /\ Len(ov') = Len(ov) + 1
    /\ ov'[Len(ov')].kind = "dir"

\* C16 (as stated): a directory overlay materialized by child() or
\* for_each_entry() has the cid_builder, max_links and max_hamt_fanout of its
\* parent at that time.
C16_InheritsBuilderAndLimits ==
    [][\A t \in Threads :
        MaterializesDir(t) =>
            LET e == ov'[Len(ov')]
                p == ov[e.parent]
            IN /\ e.maxLinks = p.maxLinks
               /\ e.maxFanout = p.maxFanout
               /\ e.cb = p.cb]_vars

\* C16 (amended): a directory overlay materialized by child() or
\* for_each_entry() has the max_links and max_hamt_fanout of its parent at that
\* time; its cid_builder is the one NewDirectory gives it for the persisted
\* node, not the parent's.
C16_InheritsLimits ==
    [][\A t \in Threads :
        MaterializesDir(t) =>
            LET e == ov'[Len(ov')]
                p == ov[e.parent]
            IN /\ e.maxLinks = p.maxLinks
               /\ e.maxFanout = p.maxFanout
               /\ e.cb = NewDirectory(e.name, p.links[e.name], e.parent).cb]_vars

\* child(name) has materialized a directory under a parent whose limits are
\* not the default ones
C16_Witness ==
    \E t \in Threads :
        /\ Done(t, "Child") /\ ret[t].err = "nil" /\ ret[t].inst # 0
        /\ ov[ret[t].inst].kind = "dir" /\ ~gh[ret[t].inst].made
        /\ ov[ret[t].d].maxLinks # 0
        /\ ov[ret[t].inst].maxLinks = ov[ret[t].d].maxLinks
        /\ ov[ret[t].inst].maxFanout = ov[ret[t].d].maxFanout

C18_UnlinkedStaysAbsent ==
    \A d \in 1..Len(ov) :
        \A n \in gh[d].gone : n \notin DOMAIN ov[d].links /\ n \notin DOMAIN ov[d].cache

\* the node found under nd along the names of path (Nil when a name is missing)
RECURSIVE Lookup(_, _)
Lookup(nd, path) ==
    IF path = <<>> THEN nd
    ELSE IF Head(path) \in DOMAIN nd.links THEN Lookup(nd.links[Head(path)], Tail(path))
    ELSE Nil

\* C19: single-threaded, when flush() of the top directory has succeeded, every
\* directory created by a successful mkdir, on a path no part of which was
\* unlinked (through overlays none of which was dropped by uncache), is found
\* by its names under the node the top directory delivered.
C19_MkdirReachableAfterFlush ==
    \A t \in Threads :
        (Done(t, "Flush") /\ ret[t].err = "nil" /\ ret[t].d = 1) =>
            \A i \in 2..Len(ov) :
                (gh[i].made /\ \A j \in Anc(ov, i) : ~gh[j].dead) =>
                    Lookup(ret[t].node, Tail(Path(ov, i))).type \in DirKinds

\* C20: add_child and mkdir leave a name that is linked in the backing store
\* linked to the same node, whatever they return.
C20_ExistingLinkKept ==
    [][\A t \in Threads :
        ((Completes(t, "AddChild") \/ Completes(t, "Mkdir"))
            /\ thr[t].name \in DOMAIN ov[thr[t].d].links) =>
                HasLink(ov'[thr[t].d].links, thr[t].name, ov[thr[t].d].links[thr[t].name])]_vars

====
